---------------------------- MODULE Spec2Model ----------------------------
(***************************************************************************)
(* A model of the SVG volume calculator (src/app.py).                      *)
(*                                                                         *)
(* Two views of the program are specified over one set of variables:       *)
(*   Spec      the web handlers upload() and calculate(), each one atomic  *)
(*             step, acting on the single stored SVG slot;                 *)
(*   SpecPipe  the body of calculate()'s try block (parse_svg_shapes and   *)
(*             compute_signed_area) unrolled loop iteration by iteration.  *)
(* Both use the same operators for the per-element and per-pair work.      *)
(*                                                                         *)
(* Numbers: coordinates are integers; an area is carried doubled (Area2)   *)
(* so that the shoelace half stays integral; depth and volume are exact    *)
(* rationals [n, d] in lowest terms, or the floats inf / nan.              *)
(***************************************************************************)
EXTENDS Integers, Sequences, FiniteSets

VARIABLES
    slot,        \* content of static/uploads/uploaded.svg, or NoFile
    lastValid,   \* history: content of the last upload named *.svg, or NoFile
    req,         \* the request just served: its kind, and the filename or title sent
    flash,       \* the message flashed by the request just served
    volume_ml,   \* the volume it computed (NoValue when none was computed)
    depth,       \* the depth it parsed    (NoValue when none was parsed)
    doc,         \* SpecPipe: the document parse_svg_shapes reads
    pc,          \* SpecPipe: position in the try block
    k,           \* SpecPipe: index of the next element of root.iter()
    shapes,      \* SpecPipe: the working list of {'polygon', 'nest_level'}
    i,           \* SpecPipe: outer index of the nesting loop
    j,           \* SpecPipe: inner index of the nesting loop
    total_area   \* SpecPipe: the running signed area, doubled

vars == <<slot, lastValid, req, flash, volume_ml, depth,
          doc, pc, k, shapes, i, j, total_area>>
webVars == <<slot, lastValid, req, flash, volume_ml, depth>>
pipeVars == <<doc, pc, k, shapes, i, j, total_area>>

----------------------------------------------------------------------------
(* Bounds of the model.                                                    *)

\* longest document (number of elements) built from the core catalogue
MaxElems == 3
\* longest depth text enumerated over the depth alphabet
MaxDepthLen == 3

----------------------------------------------------------------------------
(* Integer helpers.                                                        *)

Abs(x) == IF x < 0 THEN -x ELSE x
Sign(x) == IF x < 0 THEN -1 ELSE IF x > 0 THEN 1 ELSE 0
Min(a, b) == IF a <= b THEN a ELSE b
Max(a, b) == IF a >= b THEN a ELSE b

RECURSIVE Gcd(_, _)
Gcd(a, b) == IF b = 0 THEN a ELSE Gcd(b, a % b)

RECURSIVE Pow(_, _)
Pow(b, e) == IF e = 0 THEN 1 ELSE b * Pow(b, e - 1)

RECURSIVE SeqsUpTo(_, _)
SeqsUpTo(S, n) ==
    IF n = 0 THEN {<<>>}
    ELSE LET shorter == SeqsUpTo(S, n - 1)
         IN  shorter \cup {Append(s, x) : s \in shorter, x \in S}

----------------------------------------------------------------------------
(* Floats.  A finite value is the exact rational n / d in lowest terms     *)
(* (d > 0); inf carries its sign in n.                                     *)

Fin(n, d) ==
    LET g == Gcd(Abs(n), Abs(d))
    IN  [kind |-> "finite", n |-> Sign(d) * (n \div g), d |-> Abs(d) \div g]
Inf(sign) == [kind |-> "inf", n |-> sign, d |-> 0]
NaN == [kind |-> "nan", n |-> 0, d |-> 0]
NoValue == [kind |-> "none", n |-> 0, d |-> 0]

\* x * y
FMul(x, y) ==
    CASE x.kind = "nan" \/ y.kind = "nan" -> NaN
      [] x.kind = "inf" \/ y.kind = "inf" ->
           IF Sign(x.n) * Sign(y.n) = 0 THEN NaN ELSE Inf(Sign(x.n) * Sign(y.n))
      [] OTHER -> Fin(x.n * y.n, x.d * y.d)

\* x / c for an integer c > 0
FDiv(x, c) == IF x.kind = "finite" THEN Fin(x.n, x.d * c) ELSE x

\* f"{x:.2f}": the hundredths nearest to x, ties to even; inf and nan by
\* name
Format2f(x) ==
    IF x.kind # "finite" THEN [kind |-> x.kind, sign |-> Sign(x.n), hundredths |-> 0]
    ELSE LET m == Abs(x.n) * 100
             q == m \div x.d
             r == m % x.d
             up == 2 * r > x.d \/ (2 * r = x.d /\ q % 2 = 1)
         IN  [kind |-> "finite", sign |-> Sign(x.n),
              hundredths |-> IF up THEN q + 1 ELSE q]

----------------------------------------------------------------------------
(* Planar geometry on integer points <<x, y>>: the shapely operations the  *)
(* program calls (Polygon(points), .area, .is_valid, .covers).             *)

\* cross product of (a - o) and (b - o)
Cross(o, a, b) == (a[1] - o[1]) * (b[2] - o[2]) - (a[2] - o[2]) * (b[1] - o[1])
\* dot product of (a - o) and (b - o)
Dot(o, a, b) == (a[1] - o[1]) * (b[1] - o[1]) + (a[2] - o[2]) * (b[2] - o[2])

\* Polygon(points) closes the ring when the last point is not the first.
Ring(points) ==
    IF points[1] = points[Len(points)] THEN points
    ELSE Append(points, points[1])

RECURSIVE Shoelace(_, _)
Shoelace(ring, n) ==
    IF n = 0 THEN 0
    ELSE Shoelace(ring, n - 1)
         + ring[n][1] * ring[n + 1][2] - ring[n + 1][1] * ring[n][2]

\* Polygon.area, doubled: the absolute value of the shoelace sum.
Area2(points) == Abs(Shoelace(Ring(points), Len(Ring(points)) - 1))

\* the ring's vertices in order, consecutive repeats and the closing point
\* removed
RECURSIVE Distinct(_)
Distinct(ring) ==
    IF Len(ring) <= 1 THEN <<>>
    ELSE IF ring[1] = ring[2] THEN Distinct(Tail(ring))
    ELSE <<ring[1]>> \o Distinct(Tail(ring))

Vertices(points) == Distinct(Ring(points))

\* the vertex after index a, cyclically
Succ(V, a) == V[(a % Len(V)) + 1]

\* p lies on the closed segment a-b
OnSegment(p, a, b) ==
    /\ Cross(a, b, p) = 0
    /\ Min(a[1], b[1]) <= p[1] /\ p[1] <= Max(a[1], b[1])
    /\ Min(a[2], b[2]) <= p[2] /\ p[2] <= Max(a[2], b[2])

\* the open segments a-b and c-d cross at a single interior point
ProperCross(a, b, c, d) ==
    /\ Sign(Cross(a, b, c)) * Sign(Cross(a, b, d)) < 0
    /\ Sign(Cross(c, d, a)) * Sign(Cross(c, d, b)) < 0

\* the closed segments a-b and c-d share a point
SegmentsMeet(a, b, c, d) ==
    \/ ProperCross(a, b, c, d)
    \/ OnSegment(c, a, b) \/ OnSegment(d, a, b)
    \/ OnSegment(a, c, d) \/ OnSegment(b, c, d)

\* the consecutive edges a-b and b-c fold back onto each other
FoldsBack(a, b, c) == Cross(b, a, c) = 0 /\ Dot(b, a, c) > 0

\* Polygon.is_valid for a polygon without holes: the ring is simple.
\* Edges that are not neighbours share no point; neighbours share only
\* their common vertex.
IsValid(points) ==
    LET V == Vertices(points)
        n == Len(V)
    IN  /\ n >= 3
        /\ \A a \in 1..n : FoldsBack(V[a], Succ(V, a), Succ(V, a + 1)) = FALSE
        /\ \A a \in 1..n : \A b \in (a + 1)..n :
              (b # a + 1 /\ ~(a = 1 /\ b = n))
                 => ~SegmentsMeet(V[a], Succ(V, a), V[b], Succ(V, b))

\* p is on the boundary of the polygon with vertices V
OnBoundary(V, p) == \E a \in 1..Len(V) : OnSegment(p, V[a], Succ(V, a))

\* p is strictly inside: a ray to the right crosses the ring an odd number
\* of times
StrictlyInside(V, p) ==
    LET crossing(a) ==
            LET u == V[a]
                w == Succ(V, a)
            IN  \/ u[2] <= p[2] /\ p[2] < w[2] /\ Cross(u, w, p) > 0
                \/ w[2] <= p[2] /\ p[2] < u[2] /\ Cross(u, w, p) < 0
    IN  Cardinality({a \in 1..Len(V) : crossing(a)}) % 2 = 1

InClosed(V, p) == OnBoundary(V, p) \/ StrictlyInside(V, p)

Twice(p) == <<2 * p[1], 2 * p[2]>>
TwiceAll(V) == [a \in 1..Len(V) |-> Twice(V[a])]

\* outer.covers(inner): no point of inner lies in the exterior of outer.
\* No edge of inner properly crosses an edge of outer, and each piece of
\* an edge of inner between two consecutive touching points (edge ends,
\* and vertices of outer on the edge) has its midpoint in closed outer.
\* Coordinates are doubled so that the midpoints are integral.
Covers(outer, inner) ==
    LET A == TwiceAll(Vertices(outer))
        B == TwiceAll(Vertices(inner))
        mid(p, q) == <<(p[1] + q[1]) \div 2, (p[2] + q[2]) \div 2>>
        between(p, r, q) == r # p /\ r # q /\ OnSegment(r, p, q)
        edgeInside(u, w) ==
            LET cut == {u, w} \cup {A[a] : a \in {x \in 1..Len(A) : OnSegment(A[x], u, w)}}
            IN  \A p \in cut : \A q \in cut :
                  (p # q /\ ~\E r \in cut : between(p, r, q))
                     => InClosed(A, mid(p, q))
    IN  /\ \A a \in 1..Len(A) : \A b \in 1..Len(B) :
              ~ProperCross(A[a], Succ(A, a), B[b], Succ(B, b))
        /\ \A b \in 1..Len(B) : edgeInside(B[b], Succ(B, b))


----------------------------------------------------------------------------
(* Sampling resolutions.  The source samples 1000 steps per circle,        *)
(* ellipse and curve; the model samples a circle and an ellipse at the     *)
(* four quarter turns (where cos and sin are the integers 1, 0, -1) and a  *)
(* curve at t = 0, 1/2, 1, and closes each the same way (SAMPLES + 1       *)
(* points, the first repeated as the last).                                *)

CIRCLE_SAMPLES == 4
ELLIPSE_SAMPLES == 4
CURVE_SAMPLES == 2

\* math.cos(2 * math.pi * n / 4) and math.sin(2 * math.pi * n / 4)
Cos(n) == CASE n % 4 = 0 -> 1 [] n % 4 = 1 -> 0 [] n % 4 = 2 -> -1 [] OTHER -> 0
Sin(n) == CASE n % 4 = 0 -> 0 [] n % 4 = 1 -> 1 [] n % 4 = 2 -> 0 [] OTHER -> -1

\* bezier_point(p0, p1, p2, p3, t) at t = n / CURVE_SAMPLES.  The division
\* is exact for the control points of the catalogue below.
bezier_point(p0, p1, p2, p3, n) ==
    LET N == CURVE_SAMPLES
        u == N - n
    IN  (u * u * u * p0 + 3 * u * u * n * p1 + 3 * u * n * n * p2 + n * n * n * p3)
            \div (N * N * N)

----------------------------------------------------------------------------
(* The SVG document as lxml presents it: well-formed or not, and the       *)
(* elements of root.iter() in document order, each a tag and its           *)
(* attributes.  A numeric attribute is text float() accepts (with its      *)
(* integer value) or text float() rejects.  A path's d attribute is empty, *)
(* or text parse_path rejects, or the segments parse_path returns for it.  *)


\* an attribute text float() accepts, with its value, and one it rejects
Num(n) == [float |-> TRUE, value |-> n]
NotNum == [float |-> FALSE, value |-> 0]

\* elem.attrib.get(name, default)
Get(attrib, name, default) ==
    IF name \in DOMAIN attrib THEN attrib[name] ELSE default

\* float(v) raises ValueError
FloatRaises(v) == ~v.float

\* path.continuous_subpaths(): break wherever a segment does not start
\* where the one before it ended
RECURSIVE SplitAt(_, _, _)
SplitAt(path, from, n) ==
    IF n >= Len(path) THEN <<SubSeq(path, from, Len(path))>>
    ELSE IF path[n].end # path[n + 1].start
         THEN <<SubSeq(path, from, n)>> \o SplitAt(path, n + 1, n + 1)
         ELSE SplitAt(path, from, n + 1)

continuous_subpaths(path) == SplitAt(path, 1, 1)

\* the points one segment contributes (lines 103-128)
SegmentPoints(seg) ==
    IF "control1" \in DOMAIN seg /\ "control2" \in DOMAIN seg
    THEN [n \in 1..(CURVE_SAMPLES + 1) |->
            <<bezier_point(seg.start[1], seg.control1[1], seg.control2[1], seg.end[1], n - 1),
              bezier_point(seg.start[2], seg.control1[2], seg.control2[2], seg.end[2], n - 1)>>]
    ELSE IF seg.class = "Arc"
    THEN [n \in 1..(CURVE_SAMPLES + 1) |-> seg.point[n]]
    ELSE <<seg.start, seg.end>>

RECURSIVE SubpathPoints(_)
SubpathPoints(sub) ==
    IF sub = <<>> THEN <<>>
    ELSE SegmentPoints(Head(sub)) \o SubpathPoints(Tail(sub))

\* the candidate polygons of one path, one per subpath with >= 3 points
RECURSIVE PathPolygons(_)
PathPolygons(subs) ==
    IF subs = <<>> THEN <<>>
    ELSE LET points == SubpathPoints(Head(subs))
         IN  (IF Len(points) >= 3 THEN <<points>> ELSE <<>>)
                \o PathPolygons(Tail(subs))

RectPoints(x, y, w, h) == <<<<x, y>>, <<x + w, y>>, <<x + w, y + h>>, <<x, y + h>>>>

CirclePoints(cx, cy, r) ==
    [n \in 1..(CIRCLE_SAMPLES + 1) |-> <<cx + r * Cos(n - 1), cy + r * Sin(n - 1)>>]

\* lines 78-84: both coordinates take the cosine
EllipsePoints(cx, cy, rx, ry) ==
    [n \in 1..(ELLIPSE_SAMPLES + 1) |-> <<cx + rx * Cos(n - 1), cy + ry * Cos(n - 1)>>]

Raised == [raised |-> TRUE, polys |-> <<>>]
Built(polys) == [raised |-> FALSE, polys |-> polys]

\* One iteration of the loop over root.iter() (lines 41-133), up to the
\* calls of add_polygon: the exception raised, or the candidate polygons
\* in the order they are handed to add_polygon.
ElemPolygons(elem) ==
    LET a == elem.attrib
        get(name) == Get(a, name, Num(0))
        num(name) == get(name).value
    IN  CASE elem.tag = "rect" ->
               IF \E name \in {"x", "y", "width", "height"} : FloatRaises(get(name))
               THEN Raised
               ELSE Built(<<RectPoints(num("x"), num("y"), num("width"), num("height"))>>)
          [] elem.tag = "circle" ->
               IF \E name \in {"cx", "cy", "r"} : FloatRaises(get(name))
               THEN Raised
               ELSE Built(<<CirclePoints(num("cx"), num("cy"), num("r"))>>)
          [] elem.tag = "ellipse" ->
               IF \E name \in {"cx", "cy", "rx", "ry"} : FloatRaises(get(name))
               THEN Raised
               ELSE Built(<<EllipsePoints(num("cx"), num("cy"), num("rx"), num("ry"))>>)
          [] elem.tag = "path" ->
               IF "d" \notin DOMAIN a \/ a.d.empty THEN Built(<<>>)
               ELSE IF ~a.d.wellFormed THEN Raised
               ELSE Built(PathPolygons(continuous_subpaths(a.d.segments)))
          [] OTHER -> Built(<<>>)

\* add_polygon without the validity test
add_polygon_area_only(list, poly) ==
    IF Area2(poly) > 0
    THEN Append(list, [polygon |-> poly, nest_level |-> 0])
    ELSE list

\* add_polygon (lines 36-38)
add_polygon(list, poly) ==
    IF IsValid(poly) /\ Area2(poly) > 0
    THEN Append(list, [polygon |-> poly, nest_level |-> 0])
    ELSE list

RECURSIVE AddAll(_, _)
AddAll(list, polys) ==
    IF polys = <<>> THEN list
    ELSE AddAll(add_polygon(list, Head(polys)), Tail(polys))

\* the element loop skipping an element that raises
RECURSIVE IterElems_skip_failing(_, _, _)
IterElems_skip_failing(elems, n, list) ==
    IF n > Len(elems) THEN [raised |-> FALSE, shapes |-> list]
    ELSE LET r == ElemPolygons(elems[n])
         IN  IterElems_skip_failing(elems, n + 1,
                                    IF r.raised THEN list ELSE AddAll(list, r.polys))

\* parse_svg_shapes (lines 30-135): the exception, or the list returned
RECURSIVE IterElems(_, _, _)
IterElems(elems, n, list) ==
    IF n > Len(elems) THEN [raised |-> FALSE, shapes |-> list]
    ELSE LET r == ElemPolygons(elems[n])
         IN  IF r.raised THEN [raised |-> TRUE, shapes |-> <<>>]
             ELSE IterElems(elems, n + 1, AddAll(list, r.polys))

parse_svg_shapes(d) ==
    IF ~d.wellFormed THEN [raised |-> TRUE, shapes |-> <<>>]
    ELSE IterElems(d.elems, 1, <<>>)

\* the inner loop body without the i != j test
NestPair_with_self(list, a, b) ==
    IF Covers(list[a].polygon, list[b].polygon)
    THEN [list EXCEPT ![b].nest_level = @ + 1]
    ELSE list

\* one pass of the inner loop body (lines 142-143)
NestPair(list, a, b) ==
    IF a # b /\ Covers(list[a].polygon, list[b].polygon)
    THEN [list EXCEPT ![b].nest_level = @ + 1]
    ELSE list

\* the nesting loop (lines 140-143), pair n of Len(list)^2 onwards
RECURSIVE NestLoop(_, _)
NestLoop(list, n) ==
    IF n > Len(list) * Len(list) THEN list
    ELSE NestLoop(NestPair(list, ((n - 1) \div Len(list)) + 1, ((n - 1) % Len(list)) + 1),
                  n + 1)

\* the summing loop body with the sign taken from nest_level > 0
SignedTerm_hole_if_nested(shape) ==
    (IF shape.nest_level = 0 THEN 1 ELSE -1) * Area2(shape.polygon)

\* one pass of the summing loop (lines 148-149), on doubled areas
SignedTerm(shape) ==
    (IF shape.nest_level % 2 = 0 THEN 1 ELSE -1) * Area2(shape.polygon)

RECURSIVE SumLoop(_, _)
SumLoop(list, n) ==
    IF n > Len(list) THEN 0 ELSE SignedTerm(list[n]) + SumLoop(list, n + 1)

\* compute_signed_area (lines 139-150), doubled
compute_signed_area(list) == SumLoop(NestLoop(list, 1), 1)


----------------------------------------------------------------------------
(* The documents the model reads.                                          *)

Rect(x, y, w, h) ==
    [tag |-> "rect", attrib |-> [x |-> x, y |-> y, width |-> w, height |-> h]]
Circle(cx, cy, r) == [tag |-> "circle", attrib |-> [cx |-> cx, cy |-> cy, r |-> r]]
Ellipse(cx, cy, rx, ry) ==
    [tag |-> "ellipse", attrib |-> [cx |-> cx, cy |-> cy, rx |-> rx, ry |-> ry]]
Path(segs) ==
    [tag |-> "path",
     attrib |-> [d |-> [empty |-> FALSE, wellFormed |-> TRUE, segments |-> segs]]]

Line(s, e) == [class |-> "Line", start |-> s, end |-> e]
CubicBezier(s, c1, c2, e) ==
    [class |-> "CubicBezier", start |-> s, control1 |-> c1, control2 |-> c2, end |-> e]
QuadraticBezier(s, c, e) ==
    [class |-> "QuadraticBezier", start |-> s, control |-> c, end |-> e]
\* an arc with the values of its point(t) at t = 0, 1/2, 1
Arc(s, m, e) == [class |-> "Arc", start |-> s, end |-> e, point |-> <<s, m, e>>]

\* the closed polyline through the given corners
RECURSIVE Polyline(_, _)
Polyline(corners, n) ==
    IF n > Len(corners) THEN <<>>
    ELSE <<Line(corners[n], corners[(n % Len(corners)) + 1])>> \o Polyline(corners, n + 1)

RectOuter == Rect(Num(0), Num(0), Num(6), Num(6))
RectMid == Rect(Num(1), Num(1), Num(4), Num(4))
RectInner == Rect(Num(2), Num(2), Num(2), Num(2))
RectOverlap == Rect(Num(4), Num(4), Num(4), Num(4))
CircleFar == Circle(Num(9), Num(2), Num(1))
PathTriangle == Path(Polyline(<<<<2, 2>>, <<4, 2>>, <<2, 4>>>>, 1))

\* Shapes that nest, overlap, coincide or lie apart.
CoreElems == {RectOuter, RectMid, RectInner, RectOverlap, CircleFar, PathTriangle}

RectZero == [tag |-> "rect", attrib |-> [width |-> Num(3)]]
RectNegative == Rect(Num(5), Num(5), Num(-2), Num(-2))
RectBadAttr == Rect(NotNum, Num(0), Num(2), Num(2))
CircleIn == Circle(Num(3), Num(3), Num(1))
CircleZero == [tag |-> "circle", attrib |-> [cx |-> Num(3), cy |-> Num(3)]]
CircleBadAttr == Circle(Num(3), Num(3), NotNum)
EllipseIn == Ellipse(Num(3), Num(3), Num(2), Num(1))
EllipseBadAttr == Ellipse(Num(3), Num(3), Num(2), NotNum)
PathBowtie == Path(Polyline(<<<<0, 0>>, <<4, 4>>, <<4, 0>>, <<0, 2>>>>, 1))
PathCollinear == Path(<<Line(<<0, 0>>, <<1, 1>>), Line(<<1, 1>>, <<2, 2>>)>>)
PathTwoSubpaths ==
    Path(Polyline(<<<<2, 2>>, <<3, 2>>, <<2, 3>>>>, 1)
         \o <<Line(<<7, 0>>, <<8, 0>>)>>
         \o Polyline(<<<<10, 10>>, <<12, 10>>, <<10, 12>>>>, 1))
PathCubic ==
    Path(<<CubicBezier(<<0, 0>>, <<0, 4>>, <<4, 4>>, <<4, 0>>), Line(<<4, 0>>, <<0, 0>>)>>)
PathArc == Path(<<Arc(<<2, 3>>, <<3, 4>>, <<4, 3>>), Line(<<4, 3>>, <<2, 3>>)>>)
PathQuadratic ==
    Path(<<QuadraticBezier(<<0, 0>>, <<2, 4>>, <<4, 0>>), Line(<<4, 0>>, <<2, 2>>)>>)
PathBadData ==
    [tag |-> "path",
     attrib |-> [d |-> [empty |-> FALSE, wellFormed |-> FALSE, segments |-> <<>>]]]
PathEmptyData ==
    [tag |-> "path",
     attrib |-> [d |-> [empty |-> TRUE, wellFormed |-> TRUE, segments |-> <<>>]]]
PathNoData == [tag |-> "path", attrib |-> [id |-> Num(1)]]
Group == [tag |-> "g", attrib |-> [id |-> Num(1)]]

\* Degenerate candidates, failing elements, ignored elements, curves.
SpecialElems ==
    {RectZero, RectNegative, RectBadAttr, CircleIn, CircleZero, CircleBadAttr,
     EllipseIn, EllipseBadAttr, PathBowtie, PathCollinear, PathTwoSubpaths,
     PathCubic, PathArc, PathQuadratic, PathBadData, PathEmptyData, PathNoData,
     Group}

Document(elems) == [wellFormed |-> TRUE, elems |-> elems]
Malformed == [wellFormed |-> FALSE, elems |-> <<>>]

\* request.form.get(name) and request.files.get(name): None when the field
\* is missing
None == [none |-> TRUE]
Some(v) == [none |-> FALSE, value |-> v]
FieldGet(fields, name) ==
    IF name \in DOMAIN fields THEN Some(fields[name]) ELSE None

\* flash(text, category); shown is the formatted volume of a success
Message(category, text) ==
    [category |-> category, text |-> text,
     shown |-> [kind |-> "none", sign |-> 0, hundredths |-> 0]]

\* the file at stored_svg_path: absent, or present with its content
NoFile == [exists |-> FALSE, content |-> Malformed]
Stored(content) == [exists |-> TRUE, content |-> content]

\* Every sequence of up to MaxElems core elements; every special element
\* alone, or after and before one core element; the malformed document.
Docs ==
    {Document(s) : s \in SeqsUpTo(CoreElems, MaxElems)}
      \cup {Document(before \o <<e>> \o after) :
               before \in SeqsUpTo(CoreElems, 1),
               e \in SpecialElems,
               after \in SeqsUpTo(CoreElems, 1)}
      \cup {Malformed}

----------------------------------------------------------------------------
(* SpecPipe: the try block of calculate() (lines 195-196), one loop        *)
(* iteration per step.                                                     *)

\* the local name total_area before and after line 146 binds it
Unbound == [bound |-> FALSE, value |-> 0]
Bound(v) == [bound |-> TRUE, value |-> v]

Idle ==
    /\ slot = NoFile
    /\ lastValid = NoFile
    /\ req = [kind |-> "none", field |-> None]
    /\ flash = Message("none", "")
    /\ volume_ml = NoValue
    /\ depth = NoValue

InitPipe ==
    /\ Idle
    /\ doc \in Docs
    /\ pc = "start"
    /\ k = 1
    /\ shapes = <<>>
    /\ i = 1
    /\ j = 1
    /\ total_area = Unbound

\* line 31: etree.parse(filepath) raises on a document that is not XML
EtreeParse ==
    /\ pc = "start"
    /\ pc' = IF doc.wellFormed THEN "iter" ELSE "raised"
    /\ UNCHANGED <<doc, k, shapes, i, j, total_area>>
    /\ UNCHANGED webVars

\* lines 41-133: one element of root.iter()
IterElem ==
    /\ pc = "iter"
    /\ k <= Len(doc.elems)
    /\ LET r == ElemPolygons(doc.elems[k])
       IN  IF r.raised
           THEN /\ pc' = "raised"
                /\ UNCHANGED <<k, shapes>>
           ELSE /\ shapes' = AddAll(shapes, r.polys)
                /\ k' = k + 1
                /\ pc' = pc
    /\ UNCHANGED <<doc, i, j, total_area>>
    /\ UNCHANGED webVars

\* line 135: return shapes; line 140: the nesting loop starts
ReturnShapes ==
    /\ pc = "iter"
    /\ k > Len(doc.elems)
    /\ pc' = "nest"
    /\ i' = 1
    /\ j' = 1
    /\ UNCHANGED <<doc, k, shapes, total_area>>
    /\ UNCHANGED webVars

\* lines 141-143: one (outer, inner) pair
NestStep ==
    /\ pc = "nest"
    /\ i <= Len(shapes)
    /\ shapes' = NestPair(shapes, i, j)
    /\ IF j < Len(shapes)
       THEN j' = j + 1 /\ i' = i
       ELSE j' = 1 /\ i' = i + 1
    /\ UNCHANGED <<doc, pc, k, total_area>>
    /\ UNCHANGED webVars

\* line 146: the nesting loop is over; total_area = 0.0
NestDone ==
    /\ pc = "nest"
    /\ i > Len(shapes)
    /\ pc' = "sum"
    /\ i' = 1
    /\ total_area' = Bound(0)
    /\ UNCHANGED <<doc, k, shapes, j>>
    /\ UNCHANGED webVars

\* lines 147-149: one shape's signed area
SumStep ==
    /\ pc = "sum"
    /\ i <= Len(shapes)
    /\ total_area' = Bound(total_area.value + SignedTerm(shapes[i]))
    /\ i' = i + 1
    /\ UNCHANGED <<doc, pc, k, shapes, j>>
    /\ UNCHANGED webVars

\* line 150: return total_area
ReturnArea ==
    /\ pc = "sum"
    /\ i > Len(shapes)
    /\ pc' = "returned"
    /\ UNCHANGED <<doc, k, shapes, i, j, total_area>>
    /\ UNCHANGED webVars

NextPipe ==
    \/ EtreeParse
    \/ IterElem
    \/ ReturnShapes
    \/ NestStep
    \/ NestDone
    \/ SumStep
    \/ ReturnArea

SpecPipe == InitPipe /\ [][NextPipe]_vars


----------------------------------------------------------------------------
(* Text: a string is the sequence of its characters.  "sup2" stands for    *)
(* the superscript two, a character str.isdigit() accepts and float()      *)
(* rejects.                                                                *)

AsciiDigits == {"0", "1", "2", "3", "4", "5", "6", "7", "8", "9"}

DigitValue(c) ==
    CASE c = "0" -> 0 [] c = "1" -> 1 [] c = "2" -> 2 [] c = "3" -> 3 [] c = "4" -> 4
      [] c = "5" -> 5 [] c = "6" -> 6 [] c = "7" -> 7 [] c = "8" -> 8 [] c = "9" -> 9

\* c.isdigit()
isdigit(c) == c \in AsciiDigits \cup {"sup2"}

\* s.startswith(prefix) and s.endswith(suffix)
startswith(s, prefix) ==
    Len(s) >= Len(prefix) /\ SubSeq(s, 1, Len(prefix)) = prefix
endswith(s, suffix) ==
    Len(s) >= Len(suffix) /\ SubSeq(s, Len(s) - Len(suffix) + 1, Len(s)) = suffix

\* s.count(c)
count(s, c) == Cardinality({n \in 1..Len(s) : s[n] = c})

\* the position of the first c in s, or Len(s) + 1
Find(s, c) ==
    CHOOSE n \in 1..(Len(s) + 1) :
        /\ n = Len(s) + 1 \/ s[n] = c
        /\ \A m \in 1..(n - 1) : s[m] # c

RECURSIVE StripZeros(_)
StripZeros(s) ==
    IF s # <<>> /\ Head(s) = "0" THEN StripZeros(Tail(s)) ELSE s

\* the integer a digit string writes
RECURSIVE IntOf(_)
IntOf(s) ==
    IF s = <<>> THEN 0 ELSE 10 * IntOf(SubSeq(s, 1, Len(s) - 1)) + DigitValue(s[Len(s)])

\* 2^1024 - 2^970, the least number float() rounds to inf
OverflowFrom ==
    <<
      1, 7, 9, 7, 6, 9, 3, 1, 3, 4, 8, 6, 2, 3, 1, 5, 8, 0, 7, 9, 3, 7, 2, 8, 9, 7, 1, 4, 0, 5,
      3, 0, 3, 4, 1, 5, 0, 7, 9, 9, 3, 4, 1, 3, 2, 7, 1, 0, 0, 3, 7, 8, 2, 6, 9, 3, 6, 1, 7, 3,
      7, 7, 8, 9, 8, 0, 4, 4, 4, 9, 6, 8, 2, 9, 2, 7, 6, 4, 7, 5, 0, 9, 4, 6, 6, 4, 9, 0, 1, 7,
      9, 7, 7, 5, 8, 7, 2, 0, 7, 0, 9, 6, 3, 3, 0, 2, 8, 6, 4, 1, 6, 6, 9, 2, 8, 8, 7, 9, 1, 0,
      9, 4, 6, 5, 5, 5, 5, 4, 7, 8, 5, 1, 9, 4, 0, 4, 0, 2, 6, 3, 0, 6, 5, 7, 4, 8, 8, 6, 7, 1,
      5, 0, 5, 8, 2, 0, 6, 8, 1, 9, 0, 8, 9, 0, 2, 0, 0, 0, 7, 0, 8, 3, 8, 3, 6, 7, 6, 2, 7, 3,
      8, 5, 4, 8, 4, 5, 8, 1, 7, 7, 1, 1, 5, 3, 1, 7, 6, 4, 4, 7, 5, 7, 3, 0, 2, 7, 0, 0, 6, 9,
      8, 5, 5, 5, 7, 1, 3, 6, 6, 9, 5, 9, 6, 2, 2, 8, 4, 2, 9, 1, 4, 8, 1, 9, 8, 6, 0, 8, 3, 4,
      9, 3, 6, 4, 7, 5, 2, 9, 2, 7, 1, 9, 0, 7, 4, 1, 6, 8, 4, 4, 4, 3, 6, 5, 5, 1, 0, 7, 0, 4,
      3, 4, 2, 7, 1, 1, 5, 5, 9, 6, 9, 9, 5, 0, 8, 0, 9, 3, 0, 4, 2, 8, 8, 0, 1, 7, 7, 9, 0, 4,
      1, 7, 4, 4, 9, 7, 7, 9, 2>>

\* the digit string a writes a number >= the one the equally long digit
\* sequence b writes
DigitsGeq(a, b) ==
    \/ \A n \in 1..Len(a) : DigitValue(a[n]) = b[n]
    \/ \E n \in 1..Len(a) :
          /\ DigitValue(a[n]) > b[n]
          /\ \A m \in 1..(n - 1) : DigitValue(a[m]) = b[m]

Overflows(digits) ==
    \/ Len(digits) > Len(OverflowFrom)
    \/ Len(digits) = Len(OverflowFrom) /\ DigitsGeq(digits, OverflowFrom)

\* float(text) for a text of digits with at most one '.', not starting
\* with '.': ValueError on a digit that is not a decimal digit, inf on
\* overflow, else the value written
FloatRejects(text) == \E n \in 1..Len(text) : text[n] = "sup2"

Float(text) ==
    LET dot == Find(text, ".")
        whole == StripZeros(SubSeq(text, 1, dot - 1))
        frac == SubSeq(text, dot + 1, Len(text))
        scale == Pow(10, Len(frac))
    IN  IF Overflows(whole) THEN Inf(1)
        ELSE Fin(IntOf(whole) * scale + IntOf(frac), scale)

----------------------------------------------------------------------------
(* The web handlers.                                                       *)

\* lines 175-186: the depth, or the exception caught at line 184
DepthRaised == [raised |-> TRUE, depth |-> NoValue]

\* lines 175-186 with an optional leading sign let through to float()
ValidateDepth_signed(depth_input) ==
    IF depth_input.none THEN DepthRaised
    ELSE IF depth_input.value = <<>> THEN DepthRaised
    ELSE LET signed == Head(depth_input.value) = "-"
             body == IF signed THEN Tail(depth_input.value) ELSE depth_input.value
             text == IF startswith(body, <<".">>) THEN <<"0">> \o body ELSE body
         IN  IF \/ text = <<>>
                \/ ~\A n \in 1..Len(text) : isdigit(text[n]) \/ text[n] = "."
                \/ count(text, ".") > 1
             THEN DepthRaised
             ELSE IF FloatRejects(text) THEN DepthRaised
             ELSE [raised |-> FALSE,
                   depth |-> IF signed THEN FMul(Fin(-1, 1), Float(text)) ELSE Float(text)]

ValidateDepth(depth_input) ==
    IF depth_input.none THEN DepthRaised
    ELSE IF depth_input.value = <<>> THEN DepthRaised
    ELSE LET text == IF startswith(depth_input.value, <<".">>)
                     THEN <<"0">> \o depth_input.value
                     ELSE depth_input.value
         IN  IF \/ ~\A n \in 1..Len(text) : isdigit(text[n]) \/ text[n] = "."
                \/ count(text, ".") > 1
             THEN DepthRaised
             ELSE IF FloatRejects(text) THEN DepthRaised
             ELSE [raised |-> FALSE, depth |-> Float(text)]

\* line 197 dividing by 100
VolumeMl_per_100(area2, d) == FDiv(FMul(Fin(area2, 2), d), 100)

\* line 197: area_mm2 * depth / 1000, from the doubled area
VolumeMl(area2, d) == FDiv(FMul(Fin(area2, 2), d), 1000)

\* lines 193-200: the message flashed and the volume computed from the
\* stored document
TryCalculate(stored, d) ==
    LET parsed == parse_svg_shapes(stored)
        volume == VolumeMl(compute_signed_area(parsed.shapes), d)
    IN  IF parsed.raised
        THEN [flash |-> Message("error", "Error calculating the area"),
              volume |-> NoValue]
        ELSE [flash |-> [category |-> "success", text |-> "Calculated volume",
                         shown |-> Format2f(volume)],
              volume |-> volume]

\* lines 160-161 testing only that a file was sent
UploadAccepted_any_name(file) ==
    /\ ~file.none
    /\ file.value.filename # <<>>

\* lines 160-161: file and file.filename.endswith('.svg'); a FileStorage
\* is falsy when its filename is empty
UploadAccepted(file) ==
    /\ ~file.none
    /\ file.value.filename # <<>>
    /\ endswith(file.value.filename, <<".", "s", "v", "g">>)

\* history only: the upload is one "whose filename ended in '.svg'"
NamedSvg(files) ==
    /\ "svgfile" \in DOMAIN files
    /\ LET name == files.svgfile.filename
       IN  Len(name) >= 4 /\ name[Len(name) - 3] = "." /\ name[Len(name) - 2] = "s"
             /\ name[Len(name) - 1] = "v" /\ name[Len(name)] = "g"

\* upload() (lines 158-168)
upload(files) ==
    /\ LET file == FieldGet(files, "svgfile")
       IN  IF UploadAccepted(file)
           THEN /\ slot' = Stored(file.value.content)
                /\ flash' = Message("success", "SVG uploaded successfully!")
           ELSE /\ slot' = slot
                /\ flash' = Message("error", "Invalid file format. Please upload an SVG file.")
    /\ lastValid' = IF NamedSvg(files) THEN Stored(files.svgfile.content) ELSE lastValid
    /\ req' = [kind |-> "upload",
               field |-> IF "svgfile" \in DOMAIN files
                         THEN Some(files.svgfile.filename) ELSE None]
    /\ volume_ml' = NoValue
    /\ depth' = NoValue
    /\ UNCHANGED pipeVars

\* line 189 never finding the file missing
FileExists_always(stored) == TRUE

\* line 189: os.path.exists(stored_svg_path)
FileExists(stored) == stored.exists

\* calculate() (lines 171-203)
calculate(form) ==
    /\ LET checked == ValidateDepth(FieldGet(form, "title"))
       IN  IF checked.raised
           THEN /\ flash' = Message("error", "Invalid depth")
                /\ depth' = NoValue
                /\ volume_ml' = NoValue
           ELSE IF ~FileExists(slot)
           THEN /\ flash' = Message("error", "No SVG uploaded.")
                /\ depth' = checked.depth
                /\ volume_ml' = NoValue
           ELSE LET done == TryCalculate(slot.content, checked.depth)
                IN  /\ flash' = done.flash
                    /\ depth' = checked.depth
                    /\ volume_ml' = done.volume
    /\ req' = [kind |-> "calculate", field |-> FieldGet(form, "title")]
    /\ UNCHANGED <<slot, lastValid>>
    /\ UNCHANGED pipeVars

----------------------------------------------------------------------------
(* The requests the model sends.                                           *)

Svg == [tag |-> "svg", attrib |-> [id |-> Num(1)]]

Square200 == Document(<<Svg, Rect(Num(0), Num(0), Num(200), Num(200))>>)
NestedSquares ==
    Document(<<Svg, Rect(Num(0), Num(0), Num(200), Num(200)),
               Rect(Num(50), Num(50), Num(100), Num(100))>>)

\* one rectangle of each width and height, away from the origin
RectSides == {3, 200}
SingleRects ==
    {Document(<<Svg, Rect(Num(1), Num(2), Num(w), Num(h))>>) :
        w \in RectSides, h \in RectSides}

WebDocs ==
    {Square200, NestedSquares, Malformed,
     Document(<<Svg>>),
     Document(<<Svg, EllipseIn>>),
     Document(<<Svg, RectOuter, RectOuter>>),
     Document(<<Svg, RectOuter, PathBadData>>),
     Document(<<Svg, CircleBadAttr, RectOuter>>)}
      \cup SingleRects

Filenames ==
    {<<>>,
     <<"a", ".", "s", "v", "g">>,
     <<".", "s", "v", "g">>,
     <<"s", "v", "g">>,
     <<"a", ".", "t", "x", "t">>,
     <<"a", ".", "S", "V", "G">>,
     <<"a", ".", "s", "v", "g", "z">>,
     <<".", "s", "v", "g", ".", "t", "x", "t">>}

Uploads ==
    {[svgfile |-> [filename |-> name, content |-> content]] :
        name \in Filenames, content \in WebDocs}
      \cup {[other |-> [filename |-> <<"a", ".", "s", "v", "g">>, content |-> Square200]]}

DepthAlphabet == {"5", ".", "-"}
LongNines == [n \in 1..310 |-> "9"]
DepthTexts ==
    SeqsUpTo(DepthAlphabet, MaxDepthLen)
      \cup {<<"0">>, <<"1", "0">>, <<"2", ".", "5", "0">>, <<"0", "0", "5">>,
            <<"sup2">>, <<"5", "sup2">>, <<"-", "1">>, LongNines}

Forms == {[title |-> text] : text \in DepthTexts} \cup {[other |-> <<"5">>]}

Init ==
    /\ Idle
    /\ doc = Malformed
    /\ pc = "idle"
    /\ k = 1
    /\ shapes = <<>>
    /\ i = 1
    /\ j = 1
    /\ total_area = Unbound

Upload == \E files \in Uploads : upload(files)
Calculate == \E form \in Forms : calculate(form)

Next ==
    \/ Upload
    \/ Calculate

Spec == Init /\ [][Next]_vars


----------------------------------------------------------------------------
(* Properties.                                                             *)

RECURSIVE SeqSum(_)
SeqSum(s) == IF s = <<>> THEN 0 ELSE Head(s) + SeqSum(Tail(s))

\* the list positions, other than b, whose polygon covers that of b
Coverers(b) ==
    {a \in (1..Len(shapes)) \ {b} : Covers(shapes[a].polygon, shapes[b].polygon)}

\* C1: once the nesting loop of compute_signed_area is over, every shape's
\* nest_level is the number of other list positions whose polygon covers
\* it, in whatever order the shapes were extracted; two shapes that do not
\* cover each other and are covered by nothing both have nest_level 0.
C1_NestLevelCountsCoverers ==
    pc \in {"sum", "returned"} =>
        \A b \in 1..Len(shapes) : shapes[b].nest_level = Cardinality(Coverers(b))

\* the innermost square extracted first, the outermost second
C1_Witness ==
    /\ pc = "sum"
    /\ doc = Document(<<RectInner, RectOuter, RectMid>>)
    /\ shapes[1].nest_level = 2
    /\ shapes[2].nest_level = 0
    /\ shapes[3].nest_level = 1

ChainOfThree ==
    /\ Len(doc.elems) = 3
    /\ \A e \in {RectOuter, RectMid, RectInner} : \E n \in 1..3 : doc.elems[n] = e

\* C2: compute_signed_area returns the sum over all shapes of +area for an
\* even final nest_level and -area for an odd one, unclamped (it may be
\* negative); three concentric squares of sides 6, 4, 2, in any order,
\* give 36 - 16 + 4.
C2_SignedAreaByParity ==
    pc = "returned" =>
        /\ total_area.bound
        /\ total_area.value =
              SeqSum([b \in 1..Len(shapes) |->
                        IF shapes[b].nest_level % 2 = 0
                        THEN Area2(shapes[b].polygon)
                        ELSE 0 - Area2(shapes[b].polygon)])
        /\ ChainOfThree => total_area.value = 2 * (36 - 16 + 4)

C2_Witness ==
    /\ pc = "returned"
    /\ doc = Document(<<RectMid, RectInner, RectOuter>>)
    /\ total_area.value = 48

\* x = a2 * dep / 2000 for the doubled area a2 and the float dep
IsVolumeOf(x, a2, dep) ==
    CASE dep.kind = "finite" ->
           x.kind = "finite" /\ x.n * (2000 * dep.d) = a2 * dep.n * x.d
      [] dep.kind = "inf" ->
           x = (IF a2 = 0 THEN NaN ELSE Inf(Sign(a2) * Sign(dep.n)))
      [] OTHER -> FALSE

Succeeded == req.kind = "calculate" /\ flash.text = "Calculated volume"

SentTitle(text) == req.kind = "calculate" /\ ~req.field.none /\ req.field.value = text

\* C3: a successful calculate request reports net_area * depth / 1000; for
\* a document with one rectangle of width W > 0 and height H > 0 that is
\* W * H * depth / 1000; the 200 x 200 square gives 400.00 for depth "10"
\* and 100.00 for depth "2.50".
C3_VolumeIsAreaTimesDepth ==
    Succeeded =>
        /\ IsVolumeOf(volume_ml,
                      compute_signed_area(parse_svg_shapes(slot.content).shapes),
                      depth)
        /\ flash.shown = Format2f(volume_ml)
        /\ \A w \in RectSides : \A h \in RectSides :
              slot.content = Document(<<Svg, Rect(Num(1), Num(2), Num(w), Num(h))>>)
                 => IsVolumeOf(volume_ml, 2 * w * h, depth)
        /\ slot.content = Square200 =>
              /\ SentTitle(<<"1", "0">>) =>
                    flash.shown = [kind |-> "finite", sign |-> 1, hundredths |-> 40000]
              /\ SentTitle(<<"2", ".", "5", "0">>) =>
                    flash.shown = [kind |-> "finite", sign |-> 1, hundredths |-> 10000]

C3_Witness ==
    /\ Succeeded
    /\ slot = Stored(Square200)
    /\ SentTitle(<<"2", ".", "5", "0">>)
    /\ volume_ml = Fin(100, 1)

\* the elements whose processing raises: a numeric attribute the element's
\* branch reads that is not a number, or path data that does not parse
ReadAttributes(tag) ==
    CASE tag = "rect" -> {"x", "y", "width", "height"}
      [] tag = "circle" -> {"cx", "cy", "r"}
      [] tag = "ellipse" -> {"cx", "cy", "rx", "ry"}
      [] OTHER -> {}

ElemFails(elem) ==
    \/ \E name \in ReadAttributes(elem.tag) \cap DOMAIN elem.attrib :
          ~elem.attrib[name].float
    \/ /\ elem.tag = "path"
       /\ "d" \in DOMAIN elem.attrib
       /\ ~elem.attrib.d.empty
       /\ ~elem.attrib.d.wellFormed

DocFails(d) == ~d.wellFormed \/ \E n \in 1..Len(d.elems) : ElemFails(d.elems[n])

\* C4: at every point of parse_svg_shapes, and in the list it returns,
\* every shape's polygon is valid with strictly positive area and its
\* nest_level is 0; an exception is raised only for a document that is not
\* XML or an element whose attribute or path data does not parse, never
\* for a degenerate candidate.
C4_OnlyProperPolygons ==
    /\ \A b \in 1..Len(shapes) :
          IsValid(shapes[b].polygon) /\ Area2(shapes[b].polygon) > 0
    /\ (pc = "iter" \/ (pc = "nest" /\ i = 1 /\ j = 1)) =>
          \A b \in 1..Len(shapes) : shapes[b].nest_level = 0
    /\ pc = "raised" => ~doc.wellFormed \/ ElemFails(doc.elems[k])

\* a self-crossing path between two squares: dropped, the squares kept
C4_Witness ==
    /\ pc = "iter"
    /\ k = 4
    /\ doc = Document(<<RectOuter, PathBowtie, RectMid>>)
    /\ Len(shapes) = 2
    /\ shapes[1].polygon = RectPoints(0, 0, 6, 6)
    /\ shapes[2].polygon = RectPoints(1, 1, 4, 4)

\* C5 (as claimed): once an ellipse element with rx > 0 and ry > 0 has been
\* processed, the last shape of the working set is its polygon, vertex n
\* being (cx + rx * cos(a_n), cy + ry * sin(a_n)).
C5_EllipseYieldsItsPolygon ==
    (pc = "iter" /\ k > 1 /\ doc.elems[k - 1].tag = "ellipse") =>
        LET a == doc.elems[k - 1].attrib
        IN  (a.rx.value > 0 /\ a.ry.value > 0) =>
               /\ Len(shapes) >= 1
               /\ shapes[Len(shapes)].polygon =
                     [n \in 1..(ELLIPSE_SAMPLES + 1) |->
                        <<a.cx.value + a.rx.value * Cos(n - 1),
                          a.cy.value + a.ry.value * Sin(n - 1)>>]

\* the depth rules: non-empty; a leading '.' read as '0.'; then only the
\* digits 0-9 and '.', with at most one '.'
RuleAccepts(field) ==
    /\ ~field.none
    /\ field.value # <<>>
    /\ LET text == IF Head(field.value) = "." THEN <<"0">> \o field.value
                   ELSE field.value
       IN  /\ \A n \in 1..Len(text) : text[n] \in AsciiDigits \cup {"."}
           /\ Cardinality({n \in 1..Len(text) : text[n] = "."}) <= 1

ReachedVolume ==
    req.kind = "calculate"
      /\ flash.text \in {"Calculated volume", "Error calculating the area"}

\* C6: a calculate request reaches the volume computation only if its depth
\* text passes the depth rules; any other depth text ends the request with
\* 'Invalid depth' and no volume, whether or not a document is stored.
C6_DepthTextRules ==
    req.kind = "calculate" =>
        /\ ReachedVolume => RuleAccepts(req.field)
        /\ ~RuleAccepts(req.field) =>
              flash = Message("error", "Invalid depth") /\ volume_ml = NoValue

\* ".5" is read as 0.5
C6_Witness ==
    /\ Succeeded
    /\ SentTitle(<<".", "5">>)
    /\ depth = Fin(1, 2)

\* C7 (as claimed): no volume is reported that was computed from a depth
\* that is negative or not finite.
C7_NoVolumeFromBadDepth ==
    Succeeded => depth.kind = "finite" /\ depth.n >= 0

EndsInSvg(name) == endswith(name, <<".", "s", "v", "g">>)

\* C8: the slot holds the content of the most recent upload whose filename
\* ended in '.svg' (none: no file); an upload with no file or another name
\* reports 'Invalid file format'; a calculate request leaves the slot as
\* it is and computes from what the slot holds.
C8_SlotHoldsLastSvgUpload ==
    /\ slot = lastValid
    /\ (req.kind = "upload" /\ (req.field.none \/ ~EndsInSvg(req.field.value))) =>
          flash = Message("error", "Invalid file format. Please upload an SVG file.")
    /\ (req.kind = "upload" /\ ~req.field.none /\ EndsInSvg(req.field.value)) =>
          flash = Message("success", "SVG uploaded successfully!")
    /\ Succeeded =>
          IsVolumeOf(volume_ml,
                     compute_signed_area(parse_svg_shapes(slot.content).shapes),
                     depth)

\* a rejected upload after an accepted one: the slot keeps the square
C8_Witness ==
    /\ slot = Stored(Square200)
    /\ req.kind = "upload"
    /\ req.field = Some(<<"a", ".", "t", "x", "t">>)
    /\ flash.category = "error"

\* C9: a calculate request with a valid depth made while no document is
\* stored ends with 'No SVG uploaded' and reports no volume.
C9_NoSvgUploaded ==
    (req.kind = "calculate" /\ RuleAccepts(req.field) /\ ~slot.exists) =>
        flash = Message("error", "No SVG uploaded.") /\ volume_ml = NoValue

C9_Witness ==
    /\ SentTitle(<<"5">>)
    /\ ~slot.exists
    /\ flash.text = "No SVG uploaded."

\* C10: when the stored document is not XML, or any of its elements has
\* path data or a numeric attribute that does not parse, a calculate
\* request with a valid depth ends with 'Error calculating the area' and
\* no volume, whatever was extracted before the failing element.
C10_FailureAbortsCalculation ==
    (req.kind = "calculate" /\ RuleAccepts(req.field) /\ slot.exists
       /\ DocFails(slot.content)) =>
        flash = Message("error", "Error calculating the area") /\ volume_ml = NoValue

\* a square extracted, then path data that does not parse
C10_Witness ==
    /\ SentTitle(<<"5">>)
    /\ slot = Stored(Document(<<Svg, RectOuter, PathBadData>>))
    /\ flash.text = "Error calculating the area"
    /\ volume_ml = NoValue

=============================================================================
